---------------------------- MODULE Spec2Model ----------------------------
(***************************************************************************)
(* Model of Transcribr's transcriber.py: the timestamp formatter, the      *)
(* transcript writer, and the screenshot pipeline (frame sampler,          *)
(* perceptual deduplicator, screenshot finalizer).                         *)
(*                                                                         *)
(* Conventions                                                             *)
(*  - a Python str is a sequence of one-character strings;                 *)
(*  - a frame is the tuple <<filepath, seconds>>; a filepath is the number *)
(*    of the raw file (raw_%06d.png), whose sorted order is numeric order; *)
(*  - a perceptual hash is a bit array [1..HashBits -> {0,1}];             *)
(*  - a non-negative float x is the fixed-point number ticks/Den;          *)
(*  - an exception that leaves a function is pc = "raised" with exc set.   *)
(***************************************************************************)
EXTENDS Integers, Sequences, FiniteSets, TLC

VARIABLES
    pc,                \* position of the running call
    exc,               \* the exception that left the call ("" when none)
    caller,            \* who called _deduplicate_frames
    progress_callback, \* "None" or "sink"
    sink_log,          \* the messages the sink has received, in order
    raw_dir,           \* the TemporaryDirectory: "none", "exists", "removed"
    images,            \* image files by filepath: filepath -> pixel content's hash
    frames,            \* _deduplicate_frames: the frames argument
    threshold,         \* _deduplicate_frames: the threshold argument
    unique,            \* _deduplicate_frames: local list unique
    prev_hash,         \* _deduplicate_frames: local prev_hash
    idx,               \* _deduplicate_frames: position of the for loop
    unique_frames,     \* the list _deduplicate_frames returned
    pass,              \* direct calls of the deduplicator made so far
    first_result,      \* what the first direct call returned
    video,             \* the images the decode tool samples from the video
    interval,          \* extract_screenshots: the interval argument
    decode_status,     \* how the decode tool ended: "", "ok", "nonzero", "missing"
    out_files,         \* files written into output_dir: name -> content's hash
    saved,             \* extract_screenshots: local list saved
    fidx,              \* extract_screenshots: enumerate(unique_frames, 1) position
    manifest,          \* the list extract_screenshots returned
    calls,             \* the pipeline stages entered, in order
    ts_in,             \* format_timestamp: the argument, in ticks
    ts_out,            \* format_timestamp: the returned str
    segments,          \* result["segments"] of the speech model
    out_file,          \* content of the transcript file
    seg_idx            \* transcribe_audio: position of the for loop

ctl   == <<pc, exc>>
tmpv  == <<raw_dir, images>>
sinkv == <<progress_callback, sink_log>>
ddv   == <<frames, threshold, unique, prev_hash, idx, unique_frames>>
drvv  == <<caller, pass, first_result>>
pipev == <<video, interval, decode_status, out_files, saved, fidx, manifest, calls>>
fmtv  == <<ts_in, ts_out>>
trv   == <<segments, out_file, seg_idx>>
vars  == <<ctl, tmpv, sinkv, ddv, drvv, pipev, fmtv, trv>>

-----------------------------------------------------------------------------
(* Bounds *)
MaxFrames    == 3   \* longest frame list / sampled video
HashBits     == 3   \* width of a perceptual hash
MaxThreshold == 4   \* largest threshold tried (thresholds start at -1)
Den          == 2   \* fractional resolution of float inputs: x = ticks / Den
MaxOffset    == 12  \* ticks tried above each base value of format_timestamp
MaxSegments  == 2   \* most transcript segments
MaxTextLen   == 3   \* longest segment text

Hashes     == [1..HashBits -> {0, 1}]
TsBases    == {0, 59, 65, 3599, 3661, 35999, 86399, 359999, 3599999}
TsInputs   == {b * Den + k : b \in TsBases, k \in 0..MaxOffset}
SegStarts  == {0, 3661 * Den + 1}
TextChars  == {" ", "\n", "a"}
Texts      == UNION {[1..n -> TextChars] : n \in 0..MaxTextLen}
Segment    == [start : SegStarts, text : Texts]
Thresholds == (0 - 1)..MaxThreshold
Intervals  == {10, 45, 3645}
PipeThresholds == {0, 2, 5}   \* hash_threshold values tried; 5 is the default
ZeroHash   == [b \in 1..HashBits |-> 0]

-----------------------------------------------------------------------------
(* Python string formatting *)
DigitChars == <<"0", "1", "2", "3", "4", "5", "6", "7", "8", "9">>

RECURSIVE Str(_)
(* str(n) for an int n >= 0 *)
Str(n) == IF n < 10 THEN <<DigitChars[n + 1]>>
          ELSE Str(n \div 10) \o <<DigitChars[(n % 10) + 1]>>

(* format(n, "0{width}d") for an int n >= 0: zero-filled to at least width *)
ZeroPad(n, width) ==
    LET s == Str(n)
    IN IF Len(s) >= width THEN s
       ELSE [i \in 1..(width - Len(s)) |-> "0"] \o s

-----------------------------------------------------------------------------
(* imagehash.ImageHash.__sub__: the number of differing bits *)
HashSub(a, b) == Cardinality({i \in 1..HashBits : a[i] # b[i]})

Abs(n) == IF n < 0 THEN 0 - n ELSE n

(* imagehash.phash(Image.open(filepath)) *)
phash(filepath) == images[filepath]

(* the comparison of line 82 *)
Keep_strict(curr_hash, prev, t) == Abs(HashSub(curr_hash, prev)) > t
Keep(curr_hash, prev, t) == Abs(HashSub(curr_hash, prev)) >= t

(* lines 82-84: prev_hash after a frame has been looked at *)
NextPrevHash_raw(kept, curr_hash, prev) == curr_hash
NextPrevHash(kept, curr_hash, prev) == IF kept THEN curr_hash ELSE prev

(* tempfile.TemporaryDirectory.__exit__ at the end of the with block *)
TemporaryDirectoryExit_leak(d, raising) ==
    IF d = "exists" /\ ~raising THEN "removed" ELSE d
TemporaryDirectoryExit(d, raising) == IF d = "exists" THEN "removed" ELSE d

(* what a call of the progress callback can do: "skip" (no callback),     *)
(* "ok" (delivered), "raise" (the callback raises)                         *)
SinkOutcomes == IF progress_callback = "None" THEN {"skip"} ELSE {"ok", "raise"}

Delivered(o, msg) == IF o = "ok" THEN Append(sink_log, msg) ELSE sink_log

(* an exception propagates out of the running call; leaving the with block *)
(* of extract_screenshots removes the temporary directory and its files    *)
Raise(e) ==
    /\ pc' = "raised"
    /\ exc' = e
    /\ raw_dir' = TemporaryDirectoryExit(raw_dir, TRUE)
    /\ images' = IF raw_dir = "exists" /\ raw_dir' = "removed" THEN <<>> ELSE images

-----------------------------------------------------------------------------
(* _deduplicate_frames, lines 71-78 *)
DedupEntry ==
    /\ pc = "dedup_entry"
    /\ calls' = Append(calls, "dedup")
    /\ IF frames = <<>>
       THEN /\ unique_frames' = <<>>
            /\ pc' = IF caller = "extract_screenshots" THEN "finalize_start"
                     ELSE "dedup_returned"
            /\ UNCHANGED <<exc, tmpv, sink_log, unique, prev_hash, idx>>
       ELSE \E o \in SinkOutcomes, readable \in BOOLEAN :
            IF o = "raise"
            THEN /\ Raise("SinkError")
                 /\ UNCHANGED <<sink_log, unique, prev_hash, idx, unique_frames>>
            ELSE /\ sink_log' = Delivered(o, <<"Deduplicating frames...">>)
                 /\ unique' = <<frames[1]>>
                 /\ IF readable /\ frames[1][1] \in DOMAIN images
                    THEN /\ prev_hash' = phash(frames[1][1])
                         /\ idx' = 2
                         /\ pc' = "dedup_loop"
                         /\ UNCHANGED <<exc, tmpv>>
                    ELSE /\ Raise("OSError")
                         /\ UNCHANGED <<prev_hash, idx>>
                 /\ UNCHANGED unique_frames
    /\ UNCHANGED <<progress_callback, frames, threshold, drvv, fmtv, trv>>
    /\ UNCHANGED <<video, interval, decode_status, out_files, saved, fidx, manifest>>

(* _deduplicate_frames, lines 80-84: one iteration of the for loop *)
DedupLoop ==
    /\ pc = "dedup_loop"
    /\ idx <= Len(frames)
    /\ \E readable \in BOOLEAN :
         IF readable /\ frames[idx][1] \in DOMAIN images
         THEN LET curr_hash == phash(frames[idx][1])
                  kept == Keep(curr_hash, prev_hash, threshold)
              IN /\ unique' = IF kept THEN Append(unique, frames[idx]) ELSE unique
                 /\ prev_hash' = NextPrevHash(kept, curr_hash, prev_hash)
                 /\ idx' = idx + 1
                 /\ UNCHANGED <<ctl, tmpv>>
         ELSE /\ Raise("OSError")
              /\ UNCHANGED <<unique, prev_hash, idx>>
    /\ UNCHANGED <<sinkv, frames, threshold, unique_frames, drvv, pipev, fmtv, trv>>

(* _deduplicate_frames, lines 86-89 *)
DedupExit ==
    /\ pc = "dedup_loop"
    /\ idx > Len(frames)
    /\ \E o \in SinkOutcomes :
         IF o = "raise"
         THEN /\ Raise("SinkError")
              /\ UNCHANGED <<sink_log, unique_frames>>
         ELSE /\ sink_log' = Delivered(o, <<"Kept", Len(unique), Len(frames)>>)
              /\ unique_frames' = unique
              /\ pc' = IF caller = "extract_screenshots" THEN "finalize_start"
                       ELSE "dedup_returned"
              /\ UNCHANGED <<exc, tmpv>>
    /\ UNCHANGED <<progress_callback, frames, threshold, unique, prev_hash, idx>>
    /\ UNCHANGED <<drvv, pipev, fmtv, trv>>

(* the deduplicator is called again on its own output, same threshold *)
DedupAgain ==
    /\ pc = "dedup_returned"
    /\ pass = 1
    /\ pass' = 2
    /\ first_result' = unique_frames
    /\ frames' = unique_frames
    /\ pc' = "dedup_entry"
    /\ UNCHANGED <<exc, caller, tmpv, sinkv, threshold, unique, prev_hash, idx>>
    /\ UNCHANGED <<unique_frames, pipev, fmtv, trv>>

(* frames as the tests build them: paths[i] = (file i, i * 10) *)
TestFrames(n) == [i \in 1..n |-> <<i, (i - 1) * 10>>]

IdleTail ==
    /\ video = <<>> /\ interval = 10 /\ decode_status = ""
    /\ out_files = <<>> /\ saved = <<>> /\ fidx = 0 /\ manifest = <<>>
    /\ ts_in = 0 /\ ts_out = <<>>
    /\ segments = <<>> /\ out_file = <<>> /\ seg_idx = 0

InitDedup ==
    /\ pc = "dedup_entry" /\ exc = "" /\ caller = "test"
    /\ progress_callback \in {"None", "sink"} /\ sink_log = <<>>
    /\ raw_dir = "none"
    /\ \E n \in 0..MaxFrames : /\ images \in [1..n -> Hashes]
                               /\ frames = TestFrames(n)
    /\ threshold \in Thresholds
    /\ unique = <<>> /\ prev_hash = ZeroHash /\ idx = 0 /\ unique_frames = <<>>
    /\ pass = 1 /\ first_result = <<>>
    /\ calls = <<>>
    /\ IdleTail

NextDedup == DedupEntry \/ DedupLoop \/ DedupExit \/ DedupAgain

SpecDedup == InitDedup /\ [][NextDedup]_vars

-----------------------------------------------------------------------------
(* the screenshot pipeline *)

(* line 59: seconds = i * interval *)
FrameSeconds(i, ival) == i * ival

(* subprocess.run(cmd, check=True): which endings of the tool raise *)
SubprocessRunRaises_unchecked(d) == d = "missing"
SubprocessRunRaises(d) == d # "ok"

(* lines 107-109: the output file name of the i-th surviving frame *)
out_name_nomod(i, seconds) ==
    <<"f", "r", "a", "m", "e", "_">> \o ZeroPad(i, 3) \o <<"_">>
      \o ZeroPad(seconds \div 60, 2) \o <<"m">>
      \o ZeroPad(seconds, 2) \o <<"s", ".", "p", "n", "g">>
out_name(i, seconds) ==
    LET mins == seconds \div 60
        secs == seconds % 60
    IN <<"f", "r", "a", "m", "e", "_">> \o ZeroPad(i, 3) \o <<"_">>
         \o ZeroPad(mins, 2) \o <<"m">>
         \o ZeroPad(secs, 2) \o <<"s", ".", "p", "n", "g">>

(* img.save(out_path): the directory with one file written or overwritten *)
WithFile(dir, name, content) ==
    [n \in (DOMAIN dir) \cup {name} |-> IF n = name THEN content ELSE dir[n]]

(* extract_screenshots, lines 96-98 *)
ExtractScreenshotsEntry ==
    /\ pc = "es_entry"
    /\ raw_dir' = "exists"
    /\ pc' = "erf_entry"
    /\ UNCHANGED <<exc, images, sinkv, ddv, drvv, pipev, fmtv, trv>>

(* _extract_raw_frames, lines 42-54: the decode tool runs *)
ExtractRawFramesRun ==
    /\ pc = "erf_entry"
    /\ calls' = Append(calls, "sampler")
    /\ \E o \in SinkOutcomes, d \in {"ok", "nonzero", "missing"},
          k \in 0..Len(video) :
         IF o = "raise"
         THEN /\ Raise("SinkError")
              /\ UNCHANGED <<sink_log, decode_status>>
         ELSE /\ sink_log' = Delivered(o, <<"Extracting frames from video...">>)
              /\ decode_status' = d
              /\ IF SubprocessRunRaises(d)
                 THEN Raise(IF d = "missing" THEN "FileNotFoundError"
                            ELSE "CalledProcessError")
                 ELSE /\ images' = IF d = "ok" THEN video ELSE SubSeq(video, 1, k)
                      /\ pc' = "erf_list"
                      /\ UNCHANGED <<exc, raw_dir>>
    /\ UNCHANGED <<progress_callback, ddv, drvv, fmtv, trv>>
    /\ UNCHANGED <<video, interval, out_files, saved, fidx, manifest>>

(* _extract_raw_frames, lines 56-66: the raw files become the frame list *)
ExtractRawFramesList ==
    /\ pc = "erf_list"
    /\ \E o \in SinkOutcomes :
         IF o = "raise"
         THEN /\ Raise("SinkError")
              /\ UNCHANGED <<sink_log, frames>>
         ELSE /\ frames' = [i \in 1..Len(images) |->
                              <<i, FrameSeconds(i - 1, interval)>>]
              /\ sink_log' = Delivered(o, <<"Extracted", Len(images)>>)
              /\ pc' = "dedup_entry"
              /\ UNCHANGED <<exc, tmpv>>
    /\ UNCHANGED <<progress_callback, threshold, unique, prev_hash, idx>>
    /\ UNCHANGED <<unique_frames, drvv, pipev, fmtv, trv>>

(* extract_screenshots, lines 102-105 *)
FinalizeStart ==
    /\ pc = "finalize_start"
    /\ calls' = Append(calls, "finalizer")
    /\ \E o \in SinkOutcomes :
         IF o = "raise"
         THEN /\ Raise("SinkError")
              /\ UNCHANGED <<sink_log, saved, fidx>>
         ELSE /\ sink_log' = Delivered(o, <<"Saving unique frames...">>)
              /\ saved' = <<>>
              /\ fidx' = 1
              /\ pc' = "finalize_loop"
              /\ UNCHANGED <<exc, tmpv>>
    /\ UNCHANGED <<progress_callback, ddv, drvv, fmtv, trv>>
    /\ UNCHANGED <<video, interval, decode_status, out_files, manifest>>

(* extract_screenshots, lines 106-114: one iteration of the for loop *)
FinalizeLoop ==
    /\ pc = "finalize_loop"
    /\ fidx <= Len(unique_frames)
    /\ \E readable \in BOOLEAN, writable \in BOOLEAN :
         LET filepath == unique_frames[fidx][1]
             seconds == unique_frames[fidx][2]
             name == out_name(fidx, seconds)
         IN IF readable /\ writable /\ filepath \in DOMAIN images
            THEN /\ out_files' = WithFile(out_files, name, images[filepath])
                 /\ saved' = Append(saved, <<name, seconds>>)
                 /\ fidx' = fidx + 1
                 /\ UNCHANGED <<ctl, tmpv>>
            ELSE /\ Raise("OSError")
                 /\ UNCHANGED <<out_files, saved, fidx>>
    /\ UNCHANGED <<sinkv, ddv, drvv, fmtv, trv>>
    /\ UNCHANGED <<video, interval, decode_status, manifest, calls>>

(* extract_screenshots, lines 116-119, and the end of the with block *)
FinalizeExit ==
    /\ pc = "finalize_loop"
    /\ fidx > Len(unique_frames)
    /\ \E o \in SinkOutcomes :
         IF o = "raise"
         THEN /\ Raise("SinkError")
              /\ UNCHANGED <<sink_log, manifest>>
         ELSE /\ sink_log' = Delivered(o, <<"Saved", Len(saved)>>)
              /\ manifest' = saved
              /\ pc' = "returned"
              /\ raw_dir' = TemporaryDirectoryExit(raw_dir, FALSE)
              /\ images' = IF raw_dir' = "removed" THEN <<>> ELSE images
              /\ UNCHANGED exc
    /\ UNCHANGED <<progress_callback, ddv, drvv, fmtv, trv>>
    /\ UNCHANGED <<video, interval, decode_status, out_files, saved, fidx, calls>>

InitPipeline ==
    /\ pc = "es_entry" /\ exc = "" /\ caller = "extract_screenshots"
    /\ progress_callback \in {"None", "sink"} /\ sink_log = <<>>
    /\ raw_dir = "none" /\ images = <<>>
    /\ frames = <<>> /\ threshold \in PipeThresholds
    /\ unique = <<>> /\ prev_hash = ZeroHash /\ idx = 0 /\ unique_frames = <<>>
    /\ pass = 1 /\ first_result = <<>>
    /\ \E n \in 0..MaxFrames : video \in [1..n -> Hashes]
    /\ interval \in Intervals
    /\ decode_status = "" /\ out_files = <<>> /\ saved = <<>> /\ fidx = 0
    /\ manifest = <<>> /\ calls = <<>>
    /\ ts_in = 0 /\ ts_out = <<>>
    /\ segments = <<>> /\ out_file = <<>> /\ seg_idx = 0

NextPipeline ==
    \/ ExtractScreenshotsEntry
    \/ ExtractRawFramesRun
    \/ ExtractRawFramesList
    \/ DedupEntry
    \/ DedupLoop
    \/ DedupExit
    \/ FinalizeStart
    \/ FinalizeLoop
    \/ FinalizeExit

SpecPipeline == InitPipeline /\ [][NextPipeline]_vars

-----------------------------------------------------------------------------
(* format_timestamp and transcribe_audio *)

(* float arithmetic on fixed-point values: x // d, x % d, int(x), d an int *)
PyFloorDiv(x, d) == (x \div (d * Den)) * Den
PyMod(x, d) == x % (d * Den)
PyInt(x) == x \div Den

(* format_timestamp, lines 5-10 *)
format_timestamp_rounded(seconds) ==
    LET h == PyInt(PyFloorDiv(seconds, 3600))
        m == PyInt(PyFloorDiv(PyMod(seconds, 3600), 60))
        s == PyInt(PyMod(seconds, 60) + (Den \div 2))
    IN ZeroPad(h, 2) \o <<":">> \o ZeroPad(m, 2) \o <<":">> \o ZeroPad(s, 2)
format_timestamp(seconds) ==
    LET h == PyInt(PyFloorDiv(seconds, 3600))
        m == PyInt(PyFloorDiv(PyMod(seconds, 3600), 60))
        s == PyInt(PyMod(seconds, 60))
    IN ZeroPad(h, 2) \o <<":">> \o ZeroPad(m, 2) \o <<":">> \o ZeroPad(s, 2)

Whitespace == {" ", "\n"}

RECURSIVE LStrip(_)
LStrip(s) == IF s # <<>> /\ s[1] \in Whitespace THEN LStrip(Tail(s)) ELSE s

RECURSIVE RStrip(_)
RStrip(s) == IF s # <<>> /\ s[Len(s)] \in Whitespace
             THEN RStrip(SubSeq(s, 1, Len(s) - 1)) ELSE s

(* str.strip() *)
Strip(s) == RStrip(LStrip(s))

(* a call of format_timestamp *)
FormatTimestamp ==
    /\ pc = "fmt_entry"
    /\ ts_out' = format_timestamp(ts_in)
    /\ pc' = "fmt_returned"
    /\ UNCHANGED <<exc, tmpv, sinkv, ddv, drvv, pipev, ts_in, trv>>

(* transcribe_audio, lines 15-18 *)
TranscribeEntry ==
    /\ pc = "ta_entry"
    /\ \E o \in SinkOutcomes :
         IF o = "raise"
         THEN /\ Raise("SinkError")
              /\ UNCHANGED sink_log
         ELSE /\ sink_log' = Delivered(o, <<"Loading Whisper model...">>)
              /\ pc' = "ta_transcribe"
              /\ UNCHANGED <<exc, tmpv>>
    /\ UNCHANGED <<progress_callback, ddv, drvv, pipev, fmtv, trv>>

(* transcribe_audio, lines 20-25: the model runs, the file is opened *)
TranscribeRun ==
    /\ pc = "ta_transcribe"
    /\ \E o \in SinkOutcomes :
         IF o = "raise"
         THEN /\ Raise("SinkError")
              /\ UNCHANGED <<sink_log, out_file, seg_idx>>
         ELSE /\ sink_log' = Delivered(o, <<"Transcribing audio...">>)
              /\ out_file' = <<>>
              /\ seg_idx' = 1
              /\ pc' = "ta_loop"
              /\ UNCHANGED <<exc, tmpv>>
    /\ UNCHANGED <<progress_callback, ddv, drvv, pipev, fmtv, segments>>

(* transcribe_audio, lines 26-29: one iteration of the for loop *)
TranscribeWrite ==
    /\ pc = "ta_loop"
    /\ seg_idx <= Len(segments)
    /\ LET segment == segments[seg_idx]
           timestamp == format_timestamp(segment.start)
           text == Strip(segment.text)
       IN out_file' = out_file \o <<"[">> \o timestamp \o <<"]", " ">>
                        \o text \o <<"\n">>
    /\ seg_idx' = seg_idx + 1
    /\ UNCHANGED <<ctl, tmpv, sinkv, ddv, drvv, pipev, fmtv, segments>>

(* transcribe_audio, lines 31-32 *)
TranscribeExit ==
    /\ pc = "ta_loop"
    /\ seg_idx > Len(segments)
    /\ \E o \in SinkOutcomes :
         IF o = "raise"
         THEN /\ Raise("SinkError")
              /\ UNCHANGED sink_log
         ELSE /\ sink_log' = Delivered(o, <<"Transcription complete.">>)
              /\ pc' = "ta_returned"
              /\ UNCHANGED <<exc, tmpv>>
    /\ UNCHANGED <<progress_callback, ddv, drvv, pipev, fmtv, trv>>

IdleHead ==
    /\ exc = "" /\ caller = "test" /\ sink_log = <<>>
    /\ raw_dir = "none" /\ images = <<>>
    /\ frames = <<>> /\ threshold = 5
    /\ unique = <<>> /\ prev_hash = ZeroHash /\ idx = 0 /\ unique_frames = <<>>
    /\ pass = 1 /\ first_result = <<>>
    /\ video = <<>> /\ interval = 10 /\ decode_status = ""
    /\ out_files = <<>> /\ saved = <<>> /\ fidx = 0 /\ manifest = <<>>
    /\ calls = <<>>

InitFormat ==
    /\ pc = "fmt_entry"
    /\ progress_callback = "None"
    /\ IdleHead
    /\ ts_in \in TsInputs /\ ts_out = <<>>
    /\ segments = <<>> /\ out_file = <<>> /\ seg_idx = 0

NextFormat == FormatTimestamp

SpecFormat == InitFormat /\ [][NextFormat]_vars

InitTranscribe ==
    /\ pc = "ta_entry"
    /\ progress_callback \in {"None", "sink"}
    /\ IdleHead
    /\ ts_in = 0 /\ ts_out = <<>>
    /\ \E n \in 0..MaxSegments : segments \in [1..n -> Segment]
    /\ out_file = <<>> /\ seg_idx = 0

NextTranscribe ==
    TranscribeEntry \/ TranscribeRun \/ TranscribeWrite \/ TranscribeExit

SpecTranscribe == InitTranscribe /\ [][NextTranscribe]_vars

-----------------------------------------------------------------------------
(* Properties of the deduplicator (SpecDedup) *)

Range(s) == {s[i] : i \in DOMAIN s}

RECURSIVE Pick(_, _, _)
(* the elements of s at the positions of K that are >= i, in order *)
Pick(s, K, i) ==
    IF i > Len(s) THEN <<>>
    ELSE (IF i \in K THEN <<s[i]>> ELSE <<>>) \o Pick(s, K, i + 1)

FrameDist(i, j) == HashSub(images[frames[i][1]], images[frames[j][1]])

LastKeptBefore(K, i) == CHOOSE j \in K : j < i /\ \A k \in K : k < i => k <= j

(* K is the set of positions the greedy rule keeps *)
GreedyRule(K) ==
    /\ frames # <<>> => 1 \in K
    /\ \A i \in 2..Len(frames) :
         i \in K <=> FrameDist(i, LastKeptBefore(K, i)) >= threshold

(* C1: _deduplicate_frames returns the greedy reference result: empty for
   empty input; the first frame always; a later frame iff its distance to
   the most recently kept frame is >= threshold; original order.  Frames
   sharing one fingerprint under a positive threshold leave the first only;
   frames pairwise at distance >= threshold all survive. *)
C1_GreedyReference ==
    pc = "dedup_returned" =>
      /\ \E K \in SUBSET (1..Len(frames)) :
           GreedyRule(K) /\ unique_frames = Pick(frames, K, 1)
      /\ (frames = <<>>) => (unique_frames = <<>>)
      /\ ( /\ frames # <<>>
           /\ threshold > 0
           /\ \A i, j \in 1..Len(frames) : FrameDist(i, j) = 0 )
         => unique_frames = <<frames[1]>>
      /\ (\A i, j \in 1..Len(frames) : i # j => FrameDist(i, j) >= threshold)
         => unique_frames = frames

C1_Witness ==
    /\ pc = "dedup_returned" /\ pass = 1
    /\ Len(frames) = 3 /\ threshold = 2
    /\ FrameDist(2, 1) = 1 /\ FrameDist(3, 1) = 2
    /\ unique_frames = <<frames[1], frames[3]>>

(* C2: deduplicating the deduplicator's own output with the same threshold
   returns that output unchanged (same frames, order and elapsed seconds). *)
C2_Idempotent ==
    (pc = "dedup_returned" /\ pass = 2) => unique_frames = first_result

C2_Witness ==
    /\ pc = "dedup_returned" /\ pass = 2
    /\ Len(images) = 3 /\ Len(first_result) = 2
    /\ unique_frames = first_result

(* C9 as stated: every frame other than the first whose distance from the
   immediately preceding sampled frame is >= threshold is in the output. *)
C9_AbruptChangeAlwaysCaptured ==
    pc = "dedup_returned" =>
      \A i \in 2..Len(frames) :
        FrameDist(i, i - 1) >= threshold => frames[i] \in Range(unique_frames)

(* C9 amended: a frame other than the first whose distance from the
   immediately preceding sampled frame is >= threshold is in the output
   when that preceding frame was itself kept, or when the distance is at
   least 2 * threshold - 1. *)
C9_AbruptChangeAfterKept ==
    pc = "dedup_returned" =>
      \A i \in 2..Len(frames) :
        ( /\ FrameDist(i, i - 1) >= threshold
          /\ \/ frames[i - 1] \in Range(unique_frames)
             \/ FrameDist(i, i - 1) >= 2 * threshold - 1 )
        => frames[i] \in Range(unique_frames)

C9_Witness ==
    /\ pc = "dedup_returned" /\ pass = 1
    /\ Len(frames) = 3 /\ threshold = 2
    /\ frames[2] \notin Range(unique_frames)
    /\ FrameDist(3, 2) = 3
    /\ frames[3] \in Range(unique_frames)

-----------------------------------------------------------------------------
(* Properties of the screenshot pipeline (SpecPipeline) *)

IsDigits(s) == \A i \in 1..Len(s) : \E d \in 1..10 : DigitChars[d] = s[i]

DigitValue(c) == (CHOOSE d \in 1..10 : DigitChars[d] = c) - 1

RECURSIVE Value(_)
(* the number a string of digits denotes *)
Value(s) == IF s = <<>> THEN 0
            ELSE 10 * Value(SubSeq(s, 1, Len(s) - 1)) + DigitValue(s[Len(s)])

(* s is n written in decimal, zero-filled to exactly width digits when n
   has fewer, and with no leading zero when it has more *)
IsPadded(s, n, width) ==
    /\ Len(s) >= width
    /\ IsDigits(s)
    /\ Value(s) = n
    /\ Len(s) > width => s[1] # "0"

(* name is frame_{k:03d}_{mm}m{ss}s.png for rank k and elapsed seconds sec *)
IsFrameName(name, k, sec) ==
    \E la \in 3..Len(name), lb \in 2..Len(name) :
      /\ Len(name) = 6 + la + 1 + lb + 1 + 2 + 5
      /\ SubSeq(name, 1, 6) = <<"f", "r", "a", "m", "e", "_">>
      /\ IsPadded(SubSeq(name, 7, 6 + la), k, 3)
      /\ name[7 + la] = "_"
      /\ IsPadded(SubSeq(name, 8 + la, 7 + la + lb), sec \div 60, 2)
      /\ name[8 + la + lb] = "m"
      /\ Len(SubSeq(name, 9 + la + lb, 10 + la + lb)) = 2
      /\ IsPadded(SubSeq(name, 9 + la + lb, 10 + la + lb), sec % 60, 2)
      /\ SubSeq(name, 11 + la + lb, Len(name)) = <<"s", ".", "p", "n", "g">>

(* C3: on success the manifest is an order-preserving subsequence of the
   sampled frames (N <= sampled, elapsed seconds non-decreasing) and its
   k-th entry is named frame_{k:03d}_{mm}m{ss}s.png, mm = seconds div 60,
   ss = seconds mod 60, so the sequence numbers are 1..N, the rank among
   the surviving frames. *)
C3_ManifestSubsequenceAndNames ==
    pc = "returned" =>
      /\ Len(manifest) <= Len(frames)
      /\ Len(frames) = Len(video)
      /\ \E K \in SUBSET (1..Len(frames)) :
           /\ Cardinality(K) = Len(manifest)
           /\ [k \in 1..Len(manifest) |-> manifest[k][2]]
                = Pick([i \in 1..Len(frames) |-> frames[i][2]], K, 1)
           /\ [k \in 1..Len(manifest) |-> out_files[manifest[k][1]]]
                = Pick(video, K, 1)
      /\ \A k \in 1..(Len(manifest) - 1) : manifest[k][2] <= manifest[k + 1][2]
      /\ \A k \in 1..Len(manifest) :
           IsFrameName(manifest[k][1], k, manifest[k][2])
      /\ DOMAIN out_files = {manifest[k][1] : k \in 1..Len(manifest)}

C3_Witness ==
    /\ pc = "returned"
    /\ Len(frames) = 3 /\ Len(manifest) = 2
    /\ manifest[2] = <<<<"f", "r", "a", "m", "e", "_", "0", "0", "2", "_",
                         "1", "2", "1", "m", "3", "0", "s", ".", "p", "n", "g">>,
                       7290>>

(* C4: when the decode tool exits nonzero or cannot be started, the run
   ends with that error raised to the caller, the deduplication and
   finalization stages are never entered, and no screenshot file is
   written to the output directory. *)
C4_DecodeFailureIsFatal ==
    decode_status \in {"nonzero", "missing"} =>
      /\ pc = "raised"
      /\ exc = (IF decode_status = "missing" THEN "FileNotFoundError"
                ELSE "CalledProcessError")
      /\ calls = <<"sampler">>
      /\ DOMAIN out_files = {}
      /\ manifest = <<>>

C4_Witness ==
    /\ decode_status = "nonzero" /\ pc = "raised" /\ exc = "CalledProcessError"
    /\ Len(video) = 3

(* C5: once extract_screenshots has returned or raised - success, decode
   failure, a frame that cannot be read, a screenshot that cannot be
   written - its temporary raw-frame directory no longer exists. *)
C5_TemporaryDirectoryRemoved ==
    pc \in {"returned", "raised"} => (raw_dir = "removed" /\ images = <<>>)

C5_Witness ==
    /\ pc = "raised" /\ exc = "OSError"
    /\ Len(saved) = 1 /\ fidx = 2
    /\ raw_dir = "removed"

(* C6 as stated: a progress callback that raises never aborts the
   pipeline; no run ends with the callback's error. *)
C6_SinkFailureNeverAborts ==
    ~(pc = "raised" /\ exc = "SinkError")

(* C10 as stated: in every successful run with a sink, a video of zero
   frames included, the sink receives the Sampler's two reports, then the
   Deduplicator's start report and its end report with kept/total, then
   the Finalizer's two reports, none omitted. *)
C10_ProgressInStageOrder ==
    (pc = "returned" /\ progress_callback = "sink") =>
      sink_log = << <<"Extracting frames from video...">>,
                    <<"Extracted", Len(frames)>>,
                    <<"Deduplicating frames...">>,
                    <<"Kept", Len(unique_frames), Len(frames)>>,
                    <<"Saving unique frames...">>,
                    <<"Saved", Len(manifest)>> >>

-----------------------------------------------------------------------------
(* Properties of format_timestamp (SpecFormat) and transcribe_audio
   (SpecTranscribe) *)

(* C7: for seconds x >= 0, format_timestamp(x) is HH:MM:SS of floor(x):
   hours = floor(x) div 3600 in at least 2 digits, never wrapped,
   minutes = (floor(x) mod 3600) div 60 and seconds = floor(x) mod 60,
   each in exactly 2 digits; 0 -> 00:00:00, 65.5 -> 00:01:05,
   3661 -> 01:01:01. *)
C7_FormatTimestamp ==
    pc = "fmt_returned" =>
      LET fl == ts_in \div Den
          lh == Len(ts_out) - 6
      IN /\ lh >= 2
         /\ IsPadded(SubSeq(ts_out, 1, lh), fl \div 3600, 2)
         /\ ts_out[lh + 1] = ":"
         /\ IsPadded(SubSeq(ts_out, lh + 2, lh + 3), (fl % 3600) \div 60, 2)
         /\ ts_out[lh + 4] = ":"
         /\ IsPadded(SubSeq(ts_out, lh + 5, lh + 6), fl % 60, 2)
         /\ (fl \div 3600 >= 100) => lh >= 3
         /\ (ts_in = 0) => ts_out = <<"0", "0", ":", "0", "0", ":", "0", "0">>
         /\ (2 * ts_in = 131 * Den)
              => ts_out = <<"0", "0", ":", "0", "1", ":", "0", "5">>
         /\ (ts_in = 3661 * Den)
              => ts_out = <<"0", "1", ":", "0", "1", ":", "0", "1">>

C7_Witness ==
    /\ pc = "fmt_returned"
    /\ ts_in % Den # 0
    /\ ts_in \div Den = 360000
    /\ ts_out = <<"1", "0", "0", ":", "0", "0", ":", "0", "0">>

RECURSIVE SplitLines(_)
(* the lines of a text file, without their terminators *)
SplitLines(c) ==
    IF c = <<>> THEN <<>>
    ELSE LET nl == {i \in 1..Len(c) : c[i] = "\n"}
         IN IF nl = {} THEN <<c>>
            ELSE LET i == CHOOSE j \in nl : \A k \in nl : j <= k
                 IN <<SubSeq(c, 1, i - 1)>>
                      \o SplitLines(SubSeq(c, i + 1, Len(c)))

(* C8 as stated: the transcript has exactly one line per segment, in
   segment order, the k-th being "[" + format_timestamp(start) + "] " +
   the stripped text; nothing reordered, merged or dropped, segments of
   empty or blank text included; no segments give an empty file. *)
C8_OneLinePerSegment ==
    pc = "ta_returned" =>
      SplitLines(out_file)
        = [k \in 1..Len(segments) |->
             <<"[">> \o format_timestamp(segments[k].start) \o <<"]", " ">>
               \o Strip(segments[k].text)]

=============================================================================
